---- MODULE Spec2Model ----
(***************************************************************************)
(* Golden-output test harness: the text normalizer (normalize.rs), the     *)
(* comparator and the update workflow (run.rs: check_output, make_wip),    *)
(* and the orchestrator loop (run.rs: Runner::run, run_one).               *)
(*                                                                         *)
(* Text is a sequence of characters.  A handful of fixed texts that the    *)
(* code only ever tests as a whole (the "--> " marker, the trailer line    *)
(* prefixes) are single characters of the alphabet:                        *)
(*   "sp" space, "cr" \r, "nl" \n, "xFF" a byte that is not UTF-8,         *)
(*   "uFFFD" the replacement character, "/" and "bs" the separators,       *)
(*   "ARROW"   = "--> "                                                    *)
(*   "ABORT"   = "error: aborting due to "                                 *)
(*   "VERBOSE" = "To learn more, run the command again with --verbose."    *)
(*   "CNC"     = "error: Could not compile `"                              *)
(* Filesystem operations of the comparator are taken to succeed; the disk  *)
(* is a function from the paths that exist to the text of their files.     *)
(***************************************************************************)
EXTENDS Integers, Sequences, FiniteSets, TLC

(***************************************************************************)
(* Text helpers (Rust str methods used by normalize.rs and run.rs)         *)
(***************************************************************************)
WhiteSpace == {"sp", "cr", "nl"}

Drop(s, n) == SubSeq(s, n + 1, Len(s))

Take(s, n) == SubSeq(s, 1, n)

starts_with(s, p) == Len(p) <= Len(s) /\ Take(s, Len(p)) = p

ends_with(s, p) == Len(p) <= Len(s) /\ Drop(s, Len(s) - Len(p)) = p

contains(s, p) == \E i \in 0..(Len(s) - Len(p)) : starts_with(Drop(s, i), p)

RECURSIVE replace(_, _, _)
replace(s, from, to) ==
    IF s = <<>> \/ from = <<>> THEN s
    ELSE IF starts_with(s, from) THEN to \o replace(Drop(s, Len(from)), from, to)
    ELSE <<Head(s)>> \o replace(Tail(s), from, to)

RECURSIVE trim_end(_)
trim_end(s) ==
    IF s # <<>> /\ s[Len(s)] \in WhiteSpace THEN trim_end(Take(s, Len(s) - 1)) ELSE s

RECURSIVE trim_start(_)
trim_start(s) ==
    IF s # <<>> /\ Head(s) \in WhiteSpace THEN trim_start(Tail(s)) ELSE s

from_utf8_lossy(bytes) ==
    [i \in 1..Len(bytes) |-> IF bytes[i] = "xFF" THEN "uFFFD" ELSE bytes[i]]

\* str::lines: pieces end at "\n"; a piece that ended at "\n" also loses one
\* "\r" before it; a last piece without "\n" is kept as it is.
RECURSIVE lines(_)
lines(s) ==
    IF s = <<>> THEN <<>>
    ELSE IF \E i \in 1..Len(s) : s[i] = "nl"
    THEN LET i == CHOOSE k \in 1..Len(s) : s[k] = "nl" /\ \A j \in 1..(k - 1) : s[j] # "nl"
             piece == Take(s, i - 1)
             line == IF ends_with(piece, <<"cr">>) THEN Take(piece, Len(piece) - 1) ELSE piece
         IN  <<line>> \o lines(Drop(s, i))
    ELSE <<s>>

\* str::find / str::rfind of a character set: 0 stands for None
find(s, chars) ==
    IF \E i \in 1..Len(s) : s[i] \in chars
    THEN CHOOSE i \in 1..Len(s) : s[i] \in chars /\ \A j \in 1..(i - 1) : s[j] \notin chars
    ELSE 0

rfind(s, chars) ==
    IF \E i \in 1..Len(s) : s[i] \in chars
    THEN CHOOSE i \in 1..Len(s) : s[i] \in chars /\ \A j \in (i + 1)..Len(s) : s[j] \notin chars
    ELSE 0

(***************************************************************************)
(* normalize.rs                                                            *)
(***************************************************************************)
CRLF == <<"cr", "nl">>

LF == <<"nl">>

CRATE == <<"$", "CRATE">>

DIR == <<"$", "DIR">>

Basic == 0

StripCouldNotCompile == 1

Normalizations == <<Basic, StripCouldNotCompile>>

Windows == FALSE

None == [some |-> FALSE]

Some(v) == [some |-> TRUE, v |-> v]

trim(output) ==
    LET normalized == trim_end(from_utf8_lossy(output))
    IN  IF normalized # <<>> THEN normalized \o LF ELSE normalized

\* mutant: the trailer lines are dropped in the last variation only
filter_basic_keeps_trailers(line, normalization) ==
    IF starts_with(trim_start(line), <<"ARROW">>) /\ rfind(line, {"/", "bs"}) # 0
    THEN LET cut_end == rfind(line, {"/", "bs"})
             cut_start == find(line, {"ARROW"})
         IN  Some(Take(line, cut_start) \o DIR \o <<"/">> \o Drop(line, cut_end))
    ELSE IF normalization >= StripCouldNotCompile /\ starts_with(line, <<"ABORT">>) THEN None
    ELSE IF normalization >= StripCouldNotCompile /\ line = <<"VERBOSE">> THEN None
    ELSE IF normalization >= StripCouldNotCompile /\ starts_with(line, <<"CNC">>) THEN None
    ELSE Some(line)

filter(line, normalization) ==
    IF starts_with(trim_start(line), <<"ARROW">>) /\ rfind(line, {"/", "bs"}) # 0
    THEN LET cut_end == rfind(line, {"/", "bs"})
             cut_start == find(line, {"ARROW"})
         IN  Some(Take(line, cut_start) \o DIR \o <<"/">> \o Drop(line, cut_end))
    ELSE IF starts_with(line, <<"ABORT">>) THEN None
    ELSE IF line = <<"VERBOSE">> THEN None
    ELSE IF normalization >= StripCouldNotCompile /\ starts_with(line, <<"CNC">>) THEN None
    ELSE Some(line)

\* one iteration of the loop of apply: normalized after the line is handled
apply_line(normalized, rawline, normalization, source_dir) ==
    LET f == filter(rawline, normalization)
    IN  IF ~f.some THEN normalized
        ELSE LET line == trim_end(f.v)
                 shown == IF contains(line, source_dir)
                          THEN IF Windows
                               THEN replace(replace(replace(line, source_dir, DIR),
                                                    <<"bs">>, <<"/">>),
                                            <<"/", "/", "?", "/">>, <<>>)
                               ELSE replace(line, source_dir, DIR)
                          ELSE line
                 added == normalized \o shown
             IN  IF ~ends_with(added, <<"nl", "nl">>) THEN added \o LF ELSE added

RECURSIVE apply_loop(_, _, _, _)
apply_loop(normalized, ls, normalization, source_dir) ==
    IF ls = <<>> THEN normalized
    ELSE apply_loop(apply_line(normalized, Head(ls), normalization, source_dir),
                    Tail(ls), normalization, source_dir)

apply(original, normalization, source_dir) ==
    trim(apply_loop(<<>>, lines(original), normalization, source_dir))

\* Variations { variations }: the sequence of the normalized texts
diagnostics(output, name, source_dir) ==
    LET from_bytes == replace(replace(from_utf8_lossy(output), CRLF, LF), name, CRATE)
    IN  [k \in 1..Len(Normalizations) |-> apply(from_bytes, Normalizations[k], source_dir)]

preferred(variations) == variations[Len(variations)]

\* mutant: only the preferred variation is compared
any_preferred_only(variations, expected) == expected = preferred(variations)

\* mutant: only the basic variation is compared
any_basic_only(variations, expected) == expected = variations[1]

any(variations, expected) == \E k \in 1..Len(variations) : expected = variations[k]

(***************************************************************************)
(* Paths, files and tests                                                  *)
(***************************************************************************)
Dirs == {"d1", "d2", "wip"}

Stems == {"foo", "bar", ".gitignore"}

Exts == {"rs", "stderr", "stdout", ""}

\* the paths of the disk: sources and expectation files in d1 and d2, the
\* staging directory wip with its candidates and its ignore marker
Paths ==
    {p \in [dir : Dirs, stem : Stems, ext : Exts] :
        \/ p.dir # "wip" /\ p.stem # ".gitignore" /\ p.ext # ""
        \/ p.dir = "wip" /\ p.stem # ".gitignore" /\ p.ext \in {"stderr", "stdout"}
        \/ p.dir = "wip" /\ p.stem = ".gitignore" /\ p.ext = ""}

P(dir, stem, ext) == [dir |-> dir, stem |-> stem, ext |-> ext]

\* Path::exists
exists(files, path) == path \in DOMAIN files

\* what is at a path: no file, or a file and its text
NoFile == [exists |-> FALSE, data |-> <<>>]

File(data) == [exists |-> TRUE, data |-> data]

stat(files, path) == IF exists(files, path) THEN File(files[path]) ELSE NoFile

with_extension(path, ext) == [path EXCEPT !.ext = ext]

\* fs::write: the file is created or wholly replaced
fs_write(files, path, data) ==
    [p \in DOMAIN files \cup {path} |-> IF p = path THEN data ELSE files[p]]

Ok(v) == [ok |-> TRUE, v |-> v, err |-> "none"]

Err(e) == [ok |-> FALSE, v |-> FALSE, err |-> e]

Wip == "Wip"

Overwrite == "Overwrite"

T(name, path, kind) == [name |-> name, path |-> path, kind |-> kind]

(***************************************************************************)
(* run.rs: the comparator and the update workflow                          *)
(***************************************************************************)
\* mutant: the candidate is staged in either update mode
make_wip_always_stages(files, project, path, content) ==
    LET gitignore_path == P("wip", ".gitignore", "")
        wip_path == P("wip", path.stem, path.ext)
    IN  [fs |-> fs_write(fs_write(files, gitignore_path, <<"*", "nl">>), wip_path, content),
         w |-> <<[path |-> gitignore_path, data |-> <<"*", "nl">>],
                 [path |-> wip_path, data |-> content]>>]

\* mutant: the text is written to the expectation path in either update mode
make_wip_in_place(files, project, path, content) ==
    [fs |-> fs_write(files, path, content), w |-> <<[path |-> path, data |-> content]>>]

\* mutant: a candidate already in the staging directory is not replaced
make_wip_keeps_staged(files, project, path, content) ==
    IF project.update = Wip
    THEN LET gitignore_path == P("wip", ".gitignore", "")
             wip_path == P("wip", path.stem, path.ext)
         IN  IF exists(files, wip_path)
             THEN [fs |-> fs_write(files, gitignore_path, <<"*", "nl">>),
                   w |-> <<[path |-> gitignore_path, data |-> <<"*", "nl">>]>>]
             ELSE [fs |-> fs_write(fs_write(files, gitignore_path, <<"*", "nl">>),
                                   wip_path, content),
                   w |-> <<[path |-> gitignore_path, data |-> <<"*", "nl">>],
                           [path |-> wip_path, data |-> content]>>]
    ELSE [fs |-> fs_write(files, path, content),
          w |-> <<[path |-> path, data |-> content]>>]

\* make_wip: the files after the call and the writes it made, in order
make_wip(files, project, path, content) ==
    IF project.update = Wip
    THEN LET gitignore_path == P("wip", ".gitignore", "")
             wip_path == P("wip", path.stem, path.ext)
         IN  [fs |-> fs_write(fs_write(files, gitignore_path, <<"*", "nl">>), wip_path, content),
              w |-> <<[path |-> gitignore_path, data |-> <<"*", "nl">>],
                      [path |-> wip_path, data |-> content]>>]
    ELSE [fs |-> fs_write(files, path, content),
          w |-> <<[path |-> path, data |-> content]>>]

\* mutant: a mismatch overwrites the expectation in either update mode
check_output_mismatch_overwrites(files, project, path, actual) ==
    [res |-> Ok(FALSE), fs |-> fs_write(files, path, actual),
     w |-> <<[path |-> path, data |-> actual]>>]

\* the tail of check_output (lines 196-207): no variation equals the expectation
check_output_mismatch(files, project, path, actual) ==
    IF project.update = Wip
    THEN [res |-> Err("Mismatch"), fs |-> files, w |-> <<>>]
    ELSE [res |-> Ok(FALSE), fs |-> fs_write(files, path, actual),
          w |-> <<[path |-> path, data |-> actual]>>]

check_output(files, test, project, path, must_exist, output) ==
    LET content == diagnostics(output, test.name, project.source_dir)
    IN  IF ~exists(files, path) /\ (must_exist \/ output # <<>>)
        THEN LET m == make_wip(files, project, path, preferred(content))
             IN  [res |-> Ok(TRUE), fs |-> m.fs, w |-> m.w]
        ELSE IF exists(files, path)
        THEN LET expected == replace(files[path], CRLF, LF)
             IN  IF any(content, expected)
                 THEN [res |-> Ok(FALSE), fs |-> files, w |-> <<>>]
                 ELSE check_output_mismatch(files, project, path, preferred(content))
        ELSE IF output = <<>>
        THEN [res |-> Ok(FALSE), fs |-> files, w |-> <<>>]
        ELSE check_output_mismatch(files, project, path, preferred(content))

\* what one comparator call looked at and did
CheckRecord(files, test, project, path, output, c) ==
    [path |-> path, name |-> test.name, update |-> project.update,
     before |-> stat(files, path), output |-> output,
     variations |-> diagnostics(output, test.name, project.source_dir),
     res |-> c.res, w |-> c.w]

\* mutant: the test's path is not looked at
check_exists_unchecked(files, path) == Ok(TRUE)

check_exists(files, path) ==
    IF exists(files, path) THEN Ok(TRUE) ELSE Err("Open")

(***************************************************************************)
(* run.rs: the three checks of a built case.  A case's result is           *)
(* Result<()>; checks lists the comparator calls made, in order.           *)
(***************************************************************************)
Done == [ok |-> TRUE, err |-> "none"]

Fail(e) == [ok |-> FALSE, err |-> e]

map_unit(r) == [ok |-> r.ok, err |-> r.err]

\* Test::check_pass up to the call of runner.run (lines 89-93)
check_pass_build(build_output) ==
    IF ~build_output.success THEN Fail("CargoFail") ELSE Done

\* mutant: the exit status of the run is not looked at
check_pass_ignores_status(files, run_output) ==
    IF ~run_output.ok THEN [res |-> Fail("External"), fs |-> files, checks |-> <<>>]
    ELSE [res |-> Done, fs |-> files, checks |-> <<>>]

\* Test::check_pass from the return of runner.run (lines 95-104)
check_pass(files, run_output) ==
    IF ~run_output.ok THEN [res |-> Fail("External"), fs |-> files, checks |-> <<>>]
    ELSE IF run_output.success THEN [res |-> Done, fs |-> files, checks |-> <<>>]
    ELSE [res |-> Fail("RunFailed"), fs |-> files, checks |-> <<>>]

\* mutant: the run step is called whatever the build's exit status
Test_check_output_build_unchecked(build_output) == Done

\* Test::check_output up to the call of runner.run (lines 114-118)
Test_check_output_build(build_output) ==
    IF ~build_output.success THEN Fail("BuildFail") ELSE Done

\* Test::check_output from the return of runner.run (lines 120-133)
Test_check_output(files, test, project, run_output) ==
    IF ~run_output.ok THEN [res |-> Fail("External"), fs |-> files, checks |-> <<>>]
    ELSE LET stderr_path == with_extension(test.path, "stderr")
             c1 == check_output(files, test, project, stderr_path, FALSE, run_output.stderr)
             r1 == CheckRecord(files, test, project, stderr_path, run_output.stderr, c1)
             stdout_path == with_extension(test.path, "stdout")
             c2 == check_output(c1.fs, test, project, stdout_path, FALSE, run_output.stdout)
             r2 == CheckRecord(c1.fs, test, project, stdout_path, run_output.stdout, c2)
         IN  IF ~c1.res.ok
             THEN [res |-> map_unit(c1.res), fs |-> c1.fs, checks |-> <<r1>>]
             ELSE [res |-> map_unit(c2.res), fs |-> c2.fs, checks |-> <<r1, r2>>]

\* mutant: the build's exit status is not looked at
check_compile_fail_always_compares(files, test, project, build_output) ==
    LET stderr_path == with_extension(test.path, "stderr")
        c == check_output(files, test, project, stderr_path, FALSE, build_output.stderr)
        r == CheckRecord(files, test, project, stderr_path, build_output.stderr, c)
    IN  [res |-> map_unit(c.res), fs |-> c.fs, checks |-> <<r>>]

\* mutant: the build's stdout is compared in place of its stderr
check_compile_fail_compares_stdout(files, test, project, build_output) ==
    IF build_output.success
    THEN [res |-> Fail("ShouldNotHaveCompiled"), fs |-> files, checks |-> <<>>]
    ELSE LET stderr_path == with_extension(test.path, "stderr")
             c == check_output(files, test, project, stderr_path, FALSE, build_output.stdout)
             r == CheckRecord(files, test, project, stderr_path, build_output.stdout, c)
         IN  [res |-> map_unit(c.res), fs |-> c.fs, checks |-> <<r>>]

check_compile_fail(files, test, project, build_output) ==
    IF build_output.success
    THEN [res |-> Fail("ShouldNotHaveCompiled"), fs |-> files, checks |-> <<>>]
    ELSE LET stderr_path == with_extension(test.path, "stderr")
             c == check_output(files, test, project, stderr_path, FALSE, build_output.stderr)
             r == CheckRecord(files, test, project, stderr_path, build_output.stderr, c)
         IN  [res |-> map_unit(c.res), fs |-> c.fs, checks |-> <<r>>]

(***************************************************************************)
(* run.rs: expand_globs and filter                                         *)
(***************************************************************************)
Digits == <<"0", "1", "2", "3", "4", "5", "6", "7", "8", "9">>

\* format!("{:03}", num), for num < 1000
pad3(num) ==
    <<Digits[(num \div 100) + 1], Digits[((num \div 10) % 10) + 1], Digits[(num % 10) + 1]>>

\* Path::to_str: None for a path that is not UTF-8
to_str(path) == IF path.stem = "xFF" THEN None ELSE Some(path)

is_pattern(path) == path.stem \in {"*", "***"}

\* the file names of a directory in sorted order
SortedStems == <<".gitignore", "bar", "foo">>

\* glob: an error for a malformed pattern, else the sorted matches
glob(files, pattern) ==
    IF pattern.stem = "***" THEN [ok |-> FALSE, paths |-> <<>>]
    ELSE LET all == [k \in 1..Len(SortedStems) |-> P(pattern.dir, SortedStems[k], pattern.ext)]
             hit(path) == exists(files, path)
         IN  [ok |-> TRUE, paths |-> SelectSeq(all, hit)]

RECURSIVE glob_tests(_, _, _)
glob_tests(test, paths, num) ==
    IF paths = <<>> THEN <<>>
    ELSE <<T(test.name \o <<"-">> \o pad3(num), Head(paths), test.kind)>>
         \o glob_tests(test, Tail(paths), num + 1)

\* the loop of expand_globs from (expanded_tests, bad_tests) over declared
RECURSIVE expand_loop(_, _, _, _)
expand_loop(files, declared, expanded_tests, bad_tests) ==
    IF declared = <<>> THEN [tests |-> expanded_tests, bad |-> bad_tests]
    ELSE LET test == Head(declared)
             utf8 == to_str(test.path)
         IN  IF ~utf8.some
             THEN expand_loop(files, Tail(declared), expanded_tests, bad_tests)
             ELSE IF is_pattern(utf8.v)
             THEN LET g == glob(files, utf8.v)
                  IN  IF g.ok
                      THEN expand_loop(files, Tail(declared),
                               expanded_tests \o glob_tests(test, g.paths, Len(expanded_tests)),
                               bad_tests)
                      ELSE expand_loop(files, Tail(declared), expanded_tests,
                               Append(bad_tests, test))
             ELSE expand_loop(files, Tail(declared), Append(expanded_tests, test), bad_tests)

expand_globs(files, declared) == expand_loop(files, declared, <<>>, <<>>)

\* the path, as text, contains the filter string
path_contains(path, f) == f \in {path.dir, path.stem, path.ext}

filter_tests(list, filters) ==
    IF filters = {} THEN list
    ELSE LET keep(t) == \E f \in filters : path_contains(t.path, f)
         IN  SelectSeq(list, keep)

(***************************************************************************)
(* The environment of a run: declared tests, disk, runner outcomes         *)
(***************************************************************************)
E1 == T(<<"n1">>, P("d1", "foo", "rs"), "CompileFail")

E2 == T(<<"n2">>, P("d2", "foo", "rs"), "Output")

E3 == T(<<"n3">>, P("d1", "bar", "rs"), "Pass")

\* d2/bar.rs is not on disk
E4 == T(<<"n4">>, P("d2", "bar", "rs"), "CompileFail")

E5 == T(<<"g">>, P("d1", "*", "rs"), "CompileFail")

E6 == T(<<"h">>, P("d1", "***", "rs"), "Pass")

E7 == T(<<"n7">>, P("d1", "xFF", "rs"), "Pass")

\* a literal test whose name has the form of a glob-expanded name
E8 == T(<<"g", "-", "0", "0", "1">>, P("d1", "bar", "rs"), "Pass")

\* d2/*.rs matches d2/foo.rs only
E9 == T(<<"g">>, P("d2", "*", "rs"), "CompileFail")

\* a pattern that matches no file
E10 == T(<<"k">>, P("wip", "*", "rs"), "Pass")

ListPool ==
    {<<>>, <<E1>>, <<E2>>, <<E3>>, <<E5>>, <<E6>>, <<E7>>,
     <<E1, E2>>, <<E4, E1>>, <<E3, E1>>, <<E6, E3>>, <<E3, E5>>, <<E6, E4, E1>>,
     <<E8, E9>>, <<E10>>}

\* the most cases a run has
MaxCases == 2

ArgSets == {{}, {"bar"}}

SourceFiles == {P("d1", "foo", "rs"), P("d1", "bar", "rs"), P("d2", "foo", "rs")}

\* raw captured bytes; a run of several cases draws from the few
Outputs ==
    {<<>>, <<"a">>, <<"sp", "nl">>, <<"CNC", "a">>, <<"a", "nl", "CNC", "a">>,
     <<"b", "cr", "nl", "ABORT", "a", "nl">>, <<"n1", "xFF">>}

FewOutputs == {<<>>, <<"a">>, <<"b", "cr", "nl", "ABORT", "a", "nl">>}

StdoutSamples == {<<>>, <<"a">>}

\* texts of the expectation files on disk
StderrFiles ==
    {<<>>, <<"a", "nl">>, <<"a", "cr", "nl">>, <<"a", "nl", "CNC", "a", "nl">>,
     <<"CNC", "a", "nl">>, <<"$", "CRATE", "uFFFD", "nl">>, <<"z", "nl">>}

StdoutFiles == {<<"a", "nl">>, <<"z", "nl">>}

FewFiles == {<<"a", "nl">>}

Captured(success, stdout, stderr) ==
    [ok |-> TRUE, success |-> success, stdout |-> stdout, stderr |-> stderr]

\* Err(_) from the runner
RunnerErr == [ok |-> FALSE, success |-> FALSE, stdout |-> <<>>, stderr |-> <<>>]

OutputsOf(cases) == IF Len(cases) <= 1 THEN Outputs ELSE FewOutputs

BuildResults(cases) ==
    {RunnerErr}
    \cup {Captured(s, o, e) : s \in BOOLEAN, o \in StdoutSamples, e \in OutputsOf(cases)}

RunResults(cases) ==
    {RunnerErr}
    \cup {Captured(s, o, e) : s \in BOOLEAN, o \in StdoutSamples, e \in OutputsOf(cases)}

CrateNames == {"trybuild", "mycrate"}

source_dir == <<"/", "s">>

\* the cases of a declared list on a disk that holds the source files
CasesOf(declared) == expand_globs([p \in SourceFiles |-> <<>>], declared).tests

DeclaredLists == {l \in ListPool : Len(CasesOf(l)) <= MaxCases}

\* the expectation paths the cases of a declared list are compared against
ExpectationPaths(declared) ==
    LET cases == CasesOf(declared)
    IN  {with_extension(cases[k].path, "stderr") :
             k \in {j \in 1..Len(cases) : cases[j].kind \in {"CompileFail", "Output"}}}
        \cup {with_extension(cases[k].path, "stdout") :
             k \in {j \in 1..Len(cases) : cases[j].kind = "Output"}}

FileChoices(path, declared) ==
    {NoFile} \cup {File(d) : d \in IF Len(CasesOf(declared)) > 1 THEN FewFiles
                                   ELSE IF path.ext = "stderr" THEN StderrFiles
                                   ELSE StdoutFiles}

InitialFiles(declared) ==
    LET EP == ExpectationPaths(declared)
        All == UNION {FileChoices(p, declared) : p \in EP}
    IN  {[p \in SourceFiles \cup {q \in EP : g[q].exists} |->
                 IF p \in SourceFiles THEN <<>> ELSE g[p].data] :
            g \in {h \in [EP -> All] : \A p \in EP : h[p] \in FileChoices(p, declared)}}

(***************************************************************************)
(* State                                                                   *)
(***************************************************************************)
VARIABLES
    self_tests,   \* Runner.tests, the declared tests
    args,         \* the filters given as trybuild=<filter> on the command line
    fs,           \* the disk
    pc,           \* where Runner::run is
    tests,        \* the expanded and filtered cases
    bad_tests,    \* declared tests whose glob failed
    failures,     \* the failure tally
    project,      \* the Project of prepare_project
    idx,          \* position of the loop over tests (1-based)
    build_output, \* run_one: the build output while runner.run is called
    calls,        \* history: the calls made to the runner and how they returned
    verdicts,     \* history: the cases run_one has returned for, and how
    last,         \* history: the latest case, its comparator calls
    pre_fs,       \* history: the disk before the latest case
    fs0,          \* history: the disk when the run started
    hist,         \* history: every comparator call so far, over all runs
    runs          \* history: the number of the run

vars == <<self_tests, args, fs, pc, tests, bad_tests, failures, project, idx,
          build_output, calls, verdicts, last, pre_fs, fs0, hist, runs>>

NoProject == [name |-> <<>>, update |-> Wip, source_dir |-> <<>>]

NoLast == [idx |-> 0, res |-> Done, checks |-> <<>>]

Init ==
    /\ self_tests \in DeclaredLists
    /\ args \in ArgSets
    /\ fs \in InitialFiles(self_tests)
    /\ pc = "start"
    /\ tests = <<>>
    /\ bad_tests = <<>>
    /\ failures = 0
    /\ project = NoProject
    /\ idx = 1
    /\ build_output = RunnerErr
    /\ calls = <<>>
    /\ verdicts = <<>>
    /\ last = NoLast
    /\ pre_fs = fs
    /\ fs0 = fs
    /\ hist = <<>>
    /\ runs = 1

(***************************************************************************)
(* Runner::run                                                             *)
(***************************************************************************)
\* lines 18-26: expand, filter, report and count the bad tests
Expand ==
    /\ pc = "start"
    /\ LET e == expand_globs(fs, self_tests)
       IN  /\ tests' = filter_tests(e.tests, args)
           /\ bad_tests' = e.bad
           /\ failures' = Len(e.bad)
    /\ pc' = "prepare_project"
    /\ UNCHANGED <<self_tests, args, fs, project, idx, build_output, calls, verdicts,
                   last, pre_fs, fs0, hist, runs>>

\* lines 28-31: prepare_project fails (panic) or gives the Project
PrepareProject ==
    /\ pc = "prepare_project"
    /\ \/ /\ pc' = "panicked"
          /\ UNCHANGED project
       \/ \E crate_name \in CrateNames, update \in {Wip, Overwrite} :
              /\ project' = [name |-> <<crate_name, "-tests">>, update |-> update,
                             source_dir |-> source_dir]
              /\ pc' = "prepare"
    /\ UNCHANGED <<self_tests, args, fs, tests, bad_tests, failures, idx, build_output,
                   calls, verdicts, last, pre_fs, fs0, hist, runs>>

\* mutant: an error of runner.prepare is ignored
PrepareIgnoresError ==
    /\ pc = "prepare"
    /\ \E ok \in BOOLEAN :
          /\ calls' = Append(calls, [op |-> "prepare", idx |-> 0, ok |-> ok, success |-> ok,
                                  stdout |-> <<>>])
          /\ pc' = "loop"
    /\ UNCHANGED <<self_tests, args, fs, tests, bad_tests, failures, project, idx,
                   build_output, verdicts, last, pre_fs, fs0, hist, runs>>

\* lines 33-49 up to the first case: runner.prepare fails (panic) or succeeds
Prepare ==
    /\ pc = "prepare"
    /\ \E ok \in BOOLEAN :
          /\ calls' = Append(calls, [op |-> "prepare", idx |-> 0, ok |-> ok, success |-> ok,
                                  stdout |-> <<>>])
          /\ pc' = IF ok THEN "loop" ELSE "panicked"
    /\ UNCHANGED <<self_tests, args, fs, tests, bad_tests, failures, project, idx,
                   build_output, verdicts, last, pre_fs, fs0, hist, runs>>

\* mutant: the first failing case ends the run
ReturnedAbort(r) ==
    /\ fs' = r.fs
    /\ pre_fs' = fs
    /\ failures' = IF r.res.ok THEN failures ELSE failures + 1
    /\ verdicts' = Append(verdicts, [idx |-> idx, res |-> r.res])
    /\ last' = [idx |-> idx, res |-> r.res, checks |-> r.checks]
    /\ hist' = hist \o r.checks
    /\ idx' = idx + 1
    /\ build_output' = RunnerErr
    /\ pc' = IF r.res.ok THEN "loop" ELSE "failed"

\* the end of one iteration of the loop (lines 44-47) with run_one's result r
Returned(r) ==
    /\ fs' = r.fs
    /\ pre_fs' = fs
    /\ failures' = IF r.res.ok THEN failures ELSE failures + 1
    /\ verdicts' = Append(verdicts, [idx |-> idx, res |-> r.res])
    /\ last' = [idx |-> idx, res |-> r.res, checks |-> r.checks]
    /\ hist' = hist \o r.checks
    /\ idx' = idx + 1
    /\ build_output' = RunnerErr
    /\ pc' = "loop"

\* run_one (lines 58-77) and the chosen check up to its return or to its call
\* of runner.run
RunOne ==
    /\ pc = "loop"
    /\ idx <= Len(tests)
    /\ LET test == tests[idx]
       IN  IF ~check_exists(fs, test.path).ok
           THEN /\ Returned([res |-> Fail("Open"), fs |-> fs, checks |-> <<>>])
                /\ UNCHANGED calls
           ELSE \E output \in BuildResults(tests) :
                    /\ calls' = Append(calls, [op |-> "build", idx |-> idx, ok |-> output.ok,
                                                success |-> output.success,
                                       stdout |-> output.stdout])
                    /\ IF ~output.ok
                       THEN Returned([res |-> Fail("External"), fs |-> fs, checks |-> <<>>])
                       ELSE IF test.kind = "CompileFail"
                       THEN Returned(check_compile_fail(fs, test, project, output))
                       ELSE LET r == IF test.kind = "Pass" THEN check_pass_build(output)
                                     ELSE Test_check_output_build(output)
                            IN  IF ~r.ok
                                THEN Returned([res |-> r, fs |-> fs, checks |-> <<>>])
                                ELSE /\ pc' = "run"
                                     /\ build_output' = output
                                     /\ UNCHANGED <<fs, pre_fs, failures, verdicts, last,
                                                    idx, hist>>
    /\ UNCHANGED <<self_tests, args, tests, bad_tests, project, fs0, runs>>

\* runner.run returns and the check goes on to its return
RunOneRun ==
    /\ pc = "run"
    /\ LET test == tests[idx]
       IN  \E output \in RunResults(tests) :
               /\ calls' = Append(calls, [op |-> "run", idx |-> idx, ok |-> output.ok,
                                       success |-> output.success,
                                       stdout |-> output.stdout])
               /\ IF test.kind = "Pass"
                  THEN Returned(check_pass(fs, output))
                  ELSE Returned(Test_check_output(fs, test, project, output))
    /\ UNCHANGED <<self_tests, args, tests, bad_tests, project, fs0, runs>>

\* mutant: the project name is not looked at
FinishNoExemption ==
    /\ pc = "loop"
    /\ idx > Len(tests)
    /\ pc' = IF failures > 0 THEN "failed" ELSE "returned"
    /\ UNCHANGED <<self_tests, args, fs, tests, bad_tests, failures, project, idx,
                   build_output, calls, verdicts, last, pre_fs, fs0, hist, runs>>

\* lines 51-55: the loop is over; panic with "N of M tests failed" or return
Finish ==
    /\ pc = "loop"
    /\ idx > Len(tests)
    /\ pc' = IF failures > 0 /\ project.name # <<"trybuild", "-tests">>
             THEN "failed" ELSE "returned"
    /\ UNCHANGED <<self_tests, args, fs, tests, bad_tests, failures, project, idx,
                   build_output, calls, verdicts, last, pre_fs, fs0, hist, runs>>

Next == Expand \/ PrepareProject \/ Prepare \/ RunOne \/ RunOneRun \/ Finish

Spec == Init /\ [][Next]_vars

(***************************************************************************)
(* The test binary is run again on the disk the earlier run left           *)
(***************************************************************************)
MaxRuns == 2

RerunLists == {<<E1>>, <<E3>>}

InitRerun == Init /\ self_tests \in RerunLists /\ args = {}

\* Runner::run is entered again: same declared tests, same disk
Restart ==
    /\ pc \in {"returned", "failed", "panicked"}
    /\ runs < MaxRuns
    /\ runs' = runs + 1
    /\ pc' = "start"
    /\ tests' = <<>>
    /\ bad_tests' = <<>>
    /\ failures' = 0
    /\ project' = NoProject
    /\ idx' = 1
    /\ calls' = <<>>
    /\ verdicts' = <<>>
    /\ last' = NoLast
    /\ pre_fs' = fs
    /\ fs0' = fs
    /\ UNCHANGED <<self_tests, args, fs, build_output, hist>>

NextRerun ==
    Expand \/ PrepareProject \/ Prepare \/ RunOne \/ RunOneRun \/ Finish \/ Restart

SpecRerun == InitRerun /\ [][NextRerun]_vars

(***************************************************************************)
(* run_one from the return of runner.build, for one CompileFail case and   *)
(* every short text as the build's stderr: the normalizer on all inputs    *)
(***************************************************************************)
\* the longest stderr text
MaxText == 4

TextAlphabet == {"s", "sp", "nl", "cr", "/", "ARROW", "ABORT", "VERBOSE", "CNC"}

Texts == UNION {[1..n -> TextAlphabet] : n \in 0..MaxText}

\* the build of the only case, d1/foo.rs, has returned with a failure status
InitNormalize ==
    /\ self_tests = <<E1>>
    /\ args = {}
    /\ fs = [p \in SourceFiles |-> <<>>]
    /\ pc = "built"
    /\ tests = <<E1>>
    /\ bad_tests = <<>>
    /\ failures = 0
    /\ project \in {[name |-> <<"mycrate", "-tests">>, update |-> update,
                     source_dir |-> source_dir] : update \in {Wip, Overwrite}}
    /\ idx = 1
    /\ build_output \in {Captured(FALSE, <<>>, stderr) : stderr \in Texts}
    /\ calls = <<[op |-> "prepare", idx |-> 0, ok |-> TRUE, success |-> TRUE,
                  stdout |-> <<>>],
                 [op |-> "build", idx |-> 1, ok |-> TRUE, success |-> FALSE,
                  stdout |-> build_output.stdout]>>
    /\ verdicts = <<>>
    /\ last = NoLast
    /\ pre_fs = fs
    /\ fs0 = fs
    /\ hist = <<>>
    /\ runs = 1

\* run_one lines 69-77: the diagnostics of the build and the CompileFail check
CheckBuilt ==
    /\ pc = "built"
    /\ tests[idx].kind = "CompileFail"
    /\ Returned(check_compile_fail(fs, tests[idx], project, build_output))
    /\ UNCHANGED <<self_tests, args, tests, bad_tests, project, calls, fs0, runs>>

NextNormalize == CheckBuilt \/ Finish

SpecNormalize == InitNormalize /\ [][NextNormalize]_vars

(***************************************************************************)
(* Properties of the comparator                                            *)
(***************************************************************************)
\* the comparator calls of the latest case
LastChecks == {last.checks[k] : k \in 1..Len(last.checks)}

\* the text of an expectation file as check_output compares it
Expected(c) == replace(c.before.data, CRLF, LF)

\* the expectation differs from every variation of the output
NoVariationEquals(c) == \A k \in 1..Len(c.variations) : c.variations[k] # Expected(c)

StagedPath(path) == P("wip", path.stem, path.ext)

\* the staging directory is as it was before the latest case
StagingUntouched == \A p \in Paths : p.dir = "wip" => stat(fs, p) = stat(pre_fs, p)

\* C1 (as claimed): in Stage mode a comparator call on a missing expectation
\* with non-empty output makes the case fail, and the preferred text is staged.
C1_MissingStageFails ==
    \A c \in LastChecks :
        (c.update = Wip /\ ~c.before.exists /\ c.output # <<>>)
            => /\ ~c.res.ok
               /\ ~last.res.ok
               /\ failures >= 1
               /\ stat(fs, StagedPath(c.path)) = File(preferred(c.variations))

\* C2: an existing expectation whose text, with CRLF collapsed, equals the
\* basic or the preferred variation gives Ok and no write, in either mode:
\* the expectation file and the staging directory stay as they were.
C2_TolerantMatch ==
    \A c \in LastChecks :
        (c.before.exists /\ (Expected(c) = c.variations[1] \/ Expected(c) = c.variations[2]))
            => /\ c.res = Ok(FALSE)
               /\ c.w = <<>>
               /\ stat(fs, c.path) = c.before
               /\ stat(fs, StagedPath(c.path)) = stat(pre_fs, StagedPath(c.path))

\* C2 witness: in Overwrite mode an expectation equal to the basic variation,
\* which differs from the preferred one, was accepted.
C2_Witness ==
    \E c \in LastChecks :
        /\ c.update = Overwrite
        /\ c.before.exists
        /\ Expected(c) = c.variations[1]
        /\ c.variations[1] # c.variations[2]
        /\ c.res.ok

\* C3: in Stage mode an existing expectation that no variation equals gives
\* Mismatch, the case fails, and the expectation file keeps its content.
C3_MismatchStage ==
    \A c \in LastChecks :
        (c.update = Wip /\ c.before.exists /\ NoVariationEquals(c))
            => /\ c.res = Err("Mismatch")
               /\ ~last.res.ok
               /\ c.w = <<>>
               /\ stat(fs, c.path) = c.before

C3_Witness ==
    \E c \in LastChecks :
        /\ c.update = Wip
        /\ c.before.exists
        /\ NoVariationEquals(c)
        /\ preferred(c.variations) # <<>>
        /\ ~last.res.ok

\* C4: in Overwrite mode a missing expectation with non-empty output gets
\* exactly the preferred text written to the expectation path, nothing is
\* staged, and the verdict is Ok.
C4_MissingOverwrite ==
    \A c \in LastChecks :
        (c.update = Overwrite /\ ~c.before.exists /\ c.output # <<>>)
            => /\ c.res.ok
               /\ c.w = <<[path |-> c.path, data |-> preferred(c.variations)]>>
               /\ stat(fs, c.path) = File(preferred(c.variations))
               /\ last.res.ok
               /\ StagingUntouched

C4_Witness ==
    \E c \in LastChecks :
        /\ c.update = Overwrite
        /\ ~c.before.exists
        /\ c.output # <<>>
        /\ c.variations[1] # c.variations[2]
        /\ preferred(c.variations) # <<>>
        /\ stat(fs, c.path) = File(preferred(c.variations))
        /\ last.res.ok

\* C5: a call in Overwrite mode on an expectation that no variation equals
\* replaces it with the preferred text and gives Ok; the next call on that
\* path, in Overwrite mode with the same output, gives Ok and writes nothing,
\* so the file is as the first call left it.
C5_OverwriteConverges ==
    \A k \in 1..(Len(hist) - 1) :
        LET c1 == hist[k]
            c2 == hist[k + 1]
        IN  (/\ c1.update = Overwrite
             /\ c1.before.exists
             /\ NoVariationEquals(c1)
             /\ c2.path = c1.path /\ c2.name = c1.name /\ c2.output = c1.output
             /\ c2.update = Overwrite)
                => /\ c1.res.ok
                   /\ c1.w = <<[path |-> c1.path, data |-> preferred(c1.variations)]>>
                   /\ c2.before = File(preferred(c1.variations))
                   /\ c2.res.ok
                   /\ c2.w = <<>>
                   /\ (k + 1 = Len(hist) => stat(fs, c2.path) = c2.before)

\* C5 witness: the second of two such runs has returned; the basic and the
\* preferred variation of the output differ.
C5_Witness ==
    /\ Len(hist) = 2
    /\ runs = 2
    /\ hist[1].update = Overwrite /\ hist[2].update = Overwrite
    /\ hist[1].before.exists
    /\ NoVariationEquals(hist[1])
    /\ hist[2].output = hist[1].output
    /\ hist[1].variations[1] # hist[1].variations[2]
    /\ hist[2].res.ok
    /\ stat(fs, hist[2].path) = File(preferred(hist[1].variations))

\* the run has prepared its project
Prepared == pc \in {"prepare", "loop", "run", "returned", "failed"}

\* C6: in Stage mode every file outside the staging directory exists and
\* reads as when the run started, and every write went to the staging
\* directory.
C6_StageFrame ==
    (Prepared /\ project.update = Wip)
        => /\ \A p \in Paths : p.dir # "wip" => stat(fs, p) = stat(fs0, p)
           /\ \A k \in 1..Len(hist) : \A j \in 1..Len(hist[k].w) :
                  hist[k].w[j].path.dir = "wip"

\* C6 witness: a Stage-mode run of two cases is over; one case met a
\* mismatch and one staged a candidate.
C6_Witness ==
    /\ pc = "failed"
    /\ project.update = Wip
    /\ Len(tests) = 2
    /\ \E k \in 1..Len(hist) : hist[k].res = Err("Mismatch")
    /\ \E k \in 1..Len(hist) : hist[k].w # <<>>
    /\ exists(fs, P("wip", ".gitignore", ""))

\* C7 (as claimed): with no expectation file and an empty preferred
\* variation the comparator gives Ok and writes nothing.
C7_NothingToCheck ==
    \A c \in LastChecks :
        (~c.before.exists /\ preferred(c.variations) = <<>>)
            => /\ c.res.ok
               /\ c.w = <<>>
               /\ stat(fs, c.path) = NoFile
               /\ stat(fs, StagedPath(c.path)) = stat(pre_fs, StagedPath(c.path))

(***************************************************************************)
(* Properties of the orchestrator                                          *)
(***************************************************************************)
Failed(k) == ~verdicts[k].res.ok

\* C8: run_one returns once for each case, in list order, whatever the
\* earlier cases did; the tally is the bad tests plus the failed cases; the
\* run ends only when every case has been run.
C8_EveryCaseRuns ==
    /\ Len(verdicts) = idx - 1
    /\ \A k \in 1..Len(verdicts) : verdicts[k].idx = k
    /\ failures = Len(bad_tests) + Cardinality({k \in 1..Len(verdicts) : Failed(k)})
    /\ pc \in {"returned", "failed"} => Len(verdicts) = Len(tests)
    /\ pc \in {"loop", "run", "returned", "failed"}
           => tests = filter_tests(expand_globs(fs0, self_tests).tests, args)

\* C8 witness: the first case failed and the second has been run and passed.
C8_Witness ==
    /\ Len(verdicts) = 2
    /\ Failed(1)
    /\ ~Failed(2)
    /\ failures = 1

SelfTest == project.name = <<"trybuild", "-tests">>

\* C9: at its end the run panics with "N of M tests failed" exactly when the
\* tally is not zero and the project is not trybuild-tests.
C9_OverallVerdict ==
    /\ pc = "failed" => failures > 0 /\ ~SelfTest
    /\ pc = "returned" => failures = 0 \/ SelfTest

\* C9 witness: the run of trybuild-tests returned with a tally that is not zero.
C9_Witness == pc = "returned" /\ failures > 0 /\ SelfTest /\ Len(verdicts) > 0

Calls(op) == {k \in 1..Len(calls) : calls[k].op = op}

\* C10: runner.prepare is called once, before every build and run; when the
\* preparation fails no case is built or run.
C10_PrepareFirst ==
    /\ \A k \in 1..Len(calls) : calls[k].op = "prepare" <=> k = 1
    /\ pc \in {"loop", "run", "returned", "failed"} => Cardinality(Calls("prepare")) = 1
    /\ (\E k \in Calls("prepare") : ~calls[k].ok)
           => pc = "panicked" /\ Calls("build") = {} /\ Calls("run") = {}
    /\ pc = "panicked" => Calls("build") = {} /\ Calls("run") = {} /\ verdicts = <<>>

\* C10 witness: a run that prepared has built and run a case.
C10_Witness ==
    /\ Len(calls) >= 3
    /\ calls[1].op = "prepare"
    /\ calls[2].op = "build"
    /\ calls[3].op = "run"

(***************************************************************************)
(* Properties of run_one and of the three checks                           *)
(***************************************************************************)
\* the calls of one operation of the runner for the case at position k
CallsOf(op, k) == {j \in Calls(op) : calls[j].idx = k}

\* C11 (as claimed): once runner.build has returned an Err for a case, the
\* run is aborted: no call of the runner follows it and run_one returns for
\* no later case.
C11_BuildErrorAborts ==
    \A j \in Calls("build") :
        ~calls[j].ok
            => /\ j = Len(calls)
               /\ \A k \in 1..Len(verdicts) : verdicts[k].idx <= calls[j].idx

\* C12: a Pass case whose build exits with failure fails with CargoFail and
\* runner.run is not called for it; when its build succeeds runner.run is
\* called once and the case passes exactly when the run exits successfully;
\* either way the comparator is not called and the disk is left as it was.
C12_PassVerdict ==
    (last.idx > 0 /\ tests[last.idx].kind = "Pass")
        => /\ last.checks = <<>>
           /\ fs = pre_fs
           /\ \A j \in CallsOf("build", last.idx) :
                  calls[j].ok
                      => IF ~calls[j].success
                         THEN /\ last.res = Fail("CargoFail")
                              /\ CallsOf("run", last.idx) = {}
                         ELSE \E i \in CallsOf("run", last.idx) :
                                  /\ CallsOf("run", last.idx) = {i}
                                  /\ last.res.ok <=> (calls[i].ok /\ calls[i].success)

\* C12 witness: in Overwrite mode a Pass case was built, its run exited with
\* failure and the case failed.
C12_Witness ==
    /\ last.idx > 0
    /\ tests[last.idx].kind = "Pass"
    /\ project.update = Overwrite
    /\ \E i \in CallsOf("run", last.idx) : calls[i].ok /\ ~calls[i].success
    /\ last.res = Fail("RunFailed")

\* C13: a CompileFail case whose build exits successfully fails with
\* ShouldNotHaveCompiled in either update mode, whether or not its
\* expectation file exists; the comparator is not called and neither the
\* expectation file nor the staging directory is written.
C13_UnexpectedSuccess ==
    (/\ last.idx > 0
     /\ tests[last.idx].kind = "CompileFail"
     /\ \E j \in CallsOf("build", last.idx) : calls[j].ok /\ calls[j].success)
        => /\ last.res = Fail("ShouldNotHaveCompiled")
           /\ last.checks = <<>>
           /\ fs = pre_fs
           /\ CallsOf("run", last.idx) = {}

\* C13 witness: in Overwrite mode, with no expectation file on disk, the
\* build of a CompileFail case succeeded and the case failed.
C13_Witness ==
    /\ last.idx > 0
    /\ tests[last.idx].kind = "CompileFail"
    /\ project.update = Overwrite
    /\ ~exists(fs, with_extension(tests[last.idx].path, "stderr"))
    /\ \E j \in CallsOf("build", last.idx) : calls[j].ok /\ calls[j].success
    /\ ~last.res.ok

\* C14 (as claimed): for an Output case whose build and run completed, the
\* comparator is called for the stderr and for the stdout expectation, even
\* when the stderr call fails; the case passes only if both calls are Ok.
C14_BothChecks ==
    (/\ last.idx > 0
     /\ tests[last.idx].kind = "Output"
     /\ \E i \in CallsOf("run", last.idx) : calls[i].ok)
        => /\ Len(last.checks) = 2
           /\ last.checks[1].path = with_extension(tests[last.idx].path, "stderr")
           /\ last.checks[2].path = with_extension(tests[last.idx].path, "stdout")
           /\ last.res.ok => \A c \in LastChecks : c.res.ok

\* C15 (as claimed): an Output case whose run exits with a failure status
\* fails, whatever its stderr and stdout.
C15_RunMustSucceed ==
    (/\ last.idx > 0
     /\ tests[last.idx].kind = "Output"
     /\ \E i \in CallsOf("run", last.idx) : calls[i].ok /\ ~calls[i].success)
        => ~last.res.ok

\* C16: runner.run is not called for a CompileFail case; for any case it is
\* called at most once, and the call before it is runner.build for the same
\* case, returned with a successful exit status; runner.build is called at
\* most once for a case.
C16_RunCallRule ==
    /\ \A j \in Calls("run") :
           /\ tests[calls[j].idx].kind \in {"Pass", "Output"}
           /\ j > 1
           /\ calls[j - 1].op = "build"
           /\ calls[j - 1].idx = calls[j].idx
           /\ calls[j - 1].ok
           /\ calls[j - 1].success
    /\ \A k \in 1..Len(tests) :
           /\ Cardinality(CallsOf("run", k)) <= 1
           /\ Cardinality(CallsOf("build", k)) <= 1

\* C16 witness: in a run of two cases a CompileFail case was built and not
\* run, and a case of another kind was built and run.
C16_Witness ==
    /\ Len(verdicts) = 2
    /\ \E k \in 1..2 :
           /\ tests[k].kind = "CompileFail"
           /\ CallsOf("build", k) # {}
           /\ CallsOf("run", k) = {}
    /\ \E k \in 1..2 :
           /\ tests[k].kind # "CompileFail"
           /\ CallsOf("build", k) # {}
           /\ CallsOf("run", k) # {}

\* a declared test whose glob pattern cannot be expanded
Unexpandable(t) == to_str(t.path).some /\ is_pattern(t.path) /\ ~glob(fs0, t.path).ok

\* C17: the bad tests are the declared tests whose pattern cannot be
\* expanded, each counted once in the tally and none of them a case; a case
\* whose path is not on disk fails with Open, counted once, and runner.build
\* and runner.run are not called for it; when the run is over every other
\* case has been built and has its verdict.
C17_UserInputErrors ==
    /\ pc # "start" => /\ bad_tests = SelectSeq(self_tests, Unexpandable)
                       /\ \A k \in 1..Len(tests) : ~is_pattern(tests[k].path)
    /\ failures = Len(bad_tests) + Cardinality({k \in 1..Len(verdicts) : Failed(k)})
    /\ \A k \in 1..Len(verdicts) :
           ~exists(fs0, tests[k].path)
               => /\ verdicts[k].res = Fail("Open")
                  /\ CallsOf("build", k) = {}
                  /\ CallsOf("run", k) = {}
    /\ pc \in {"returned", "failed"}
           => /\ Len(verdicts) = Len(tests)
              /\ \A k \in 1..Len(tests) :
                     exists(fs0, tests[k].path) => CallsOf("build", k) # {}

\* C17 witness: a run with a pattern that cannot be expanded and a case whose
\* path is not on disk is over; both were counted and the case after them
\* was built and passed.
C17_Witness ==
    /\ pc \in {"returned", "failed"}
    /\ Len(bad_tests) = 1
    /\ Len(verdicts) = 2
    /\ verdicts[1].res = Fail("Open")
    /\ CallsOf("build", 2) # {}
    /\ verdicts[2].res.ok
    /\ failures = 2

(***************************************************************************)
(* Properties of expand_globs                                              *)
(***************************************************************************)
\* no two tests of a list have the same name
UniqueNames(list) ==
    \A i, j \in 1..Len(list) : i # j => list[i].name # list[j].name

\* C18 (as claimed): when the declared tests have pairwise distinct names,
\* so have the cases expand_globs returns, and so have the cases of the run.
C18_UniqueExpandedNames ==
    (pc # "start" /\ UniqueNames(self_tests))
        => /\ UniqueNames(expand_globs(fs0, self_tests).tests)
           /\ UniqueNames(tests)

(***************************************************************************)
(* Properties of the normalizer                                            *)
(***************************************************************************)
\* C19 (as claimed): normalizing the preferred variation of an output again,
\* for the same test and source directory, gives that preferred variation.
C19_Idempotent ==
    \A c \in LastChecks :
        preferred(diagnostics(preferred(c.variations), c.name, project.source_dir))
            = preferred(c.variations)

\* the lines of the output as apply gets them: decoded, CRLF collapsed, the
\* test's name replaced
InputLines(c) == lines(replace(replace(from_utf8_lossy(c.output), CRLF, LF), c.name, CRATE))

\* the "aborting due to" summary line and the "run again with --verbose" hint
Trailer(line) == starts_with(line, <<"ABORT">>) \/ line = <<"VERBOSE">>

HasTrailer(ls) == \E k \in 1..Len(ls) : Trailer(ls[k])

CouldNotCompile(line) == starts_with(line, <<"CNC">>)

NotCouldNotCompile(line) == ~CouldNotCompile(line)

NonBlank(line) == trim_end(line) # <<>>

KeptByBasic(line) == NonBlank(line) /\ ~Trailer(line)

\* C20 (as claimed): there are at least two variations; when the output has
\* a trailer line the basic variation (the first) has one too, and the
\* preferred variation (the last) has none.
C20_BasicKeepsTrailers ==
    \A c \in LastChecks :
        /\ Len(c.variations) >= 2
        /\ HasTrailer(InputLines(c)) => HasTrailer(lines(c.variations[1]))
        /\ ~HasTrailer(lines(preferred(c.variations)))

\* C20 (amended): there are two variations, the preferred one last.  Both
\* drop the trailer lines: the basic variation has no line starting with the
\* "aborting due to" summary and as many non-blank lines as the output has
\* non-blank lines that are not trailer lines.  The preferred variation is
\* the basic one without its lines that start with "error: Could not
\* compile `" (blank lines aside).
C20_VariationContents ==
    \A c \in LastChecks :
        /\ Len(c.variations) = 2
        /\ \A n \in 1..2 : \A k \in 1..Len(lines(c.variations[n])) :
               ~starts_with(lines(c.variations[n])[k], <<"ABORT">>)
        /\ Len(SelectSeq(lines(c.variations[1]), NonBlank))
               = Len(SelectSeq(InputLines(c), KeptByBasic))
        /\ SelectSeq(lines(preferred(c.variations)), NonBlank)
               = SelectSeq(SelectSeq(lines(c.variations[1]), NonBlank), NotCouldNotCompile)

\* C20 witness: an output with a trailer line and a "Could not compile"
\* line: the basic variation has lost the trailer and differs from the
\* preferred one.
C20_Witness ==
    \E c \in LastChecks :
        /\ HasTrailer(InputLines(c))
        /\ \E k \in 1..Len(InputLines(c)) : CouldNotCompile(InputLines(c)[k])
        /\ ~HasTrailer(lines(c.variations[1]))
        /\ c.variations[1] # <<>>
        /\ c.variations[1] # preferred(c.variations)

(***************************************************************************)
(* Properties of the CompileFail check and of the staging directory        *)
(***************************************************************************)
\* the build of the latest case returned with a failure exit status
LastBuildFailed ==
    /\ last.idx > 0
    /\ \E j \in CallsOf("build", last.idx) : calls[j].ok /\ ~calls[j].success

\* C21: for a CompileFail case whose build failed, the verdict, the
\* comparator call and the disk after the case are what they would be for
\* any other stdout of the build, the stderr, the disk before the case and
\* the update mode being the same.
C21_StdoutNonInterference ==
    (LastBuildFailed /\ tests[last.idx].kind = "CompileFail")
        => /\ Len(last.checks) = 1
           /\ \A stdout \in Outputs :
                  LET other == check_compile_fail(pre_fs, tests[last.idx], project,
                                   Captured(FALSE, stdout, last.checks[1].output))
                  IN  /\ other.res = last.res
                      /\ other.checks = last.checks
                      /\ other.fs = fs

\* C21 witness: the build of a CompileFail case failed with a stdout that is
\* not empty, and the check wrote a file.
C21_Witness ==
    /\ LastBuildFailed
    /\ tests[last.idx].kind = "CompileFail"
    /\ \E j \in CallsOf("build", last.idx) : calls[j].stdout # <<>>
    /\ Len(last.checks) = 1
    /\ last.checks[1].w # <<>>
    /\ last.checks[1].output # <<"a">>

\* the comparator calls of the run that staged a candidate
Stagings == {k \in 1..Len(hist) : hist[k].update = Wip /\ hist[k].res = Ok(TRUE)}

IgnoreMarker == P("wip", ".gitignore", "")

\* C22: a candidate is staged under the base name of its expectation path;
\* a staged file holds the preferred text of the latest call that staged
\* under its name, whatever directory that call's case lies in; the ignore
\* marker exists whenever the staging directory holds a candidate.
C22_StagingLastWriterWins ==
    /\ \A k \in Stagings :
           /\ hist[k].w = <<[path |-> IgnoreMarker, data |-> <<"*", "nl">>],
                            [path |-> P("wip", hist[k].path.stem, hist[k].path.ext),
                             data |-> preferred(hist[k].variations)]>>
           /\ (\A j \in Stagings : j > k => StagedPath(hist[j].path) # StagedPath(hist[k].path))
                  => stat(fs, StagedPath(hist[k].path)) = File(preferred(hist[k].variations))
    /\ \A p \in DOMAIN fs :
           (p.dir = "wip" /\ p # IgnoreMarker)
               => /\ \E k \in Stagings : StagedPath(hist[k].path) = p
                  /\ stat(fs, IgnoreMarker) = File(<<"*", "nl">>)

\* C22 witness: two cases in different directories staged different texts
\* under one name; the staged file holds the text of the later one.
C22_Witness ==
    \E j, k \in Stagings :
        /\ j < k
        /\ hist[j].path.dir # hist[k].path.dir
        /\ StagedPath(hist[j].path) = StagedPath(hist[k].path)
        /\ preferred(hist[j].variations) # preferred(hist[k].variations)
        /\ stat(fs, StagedPath(hist[k].path)) = File(preferred(hist[k].variations))
        /\ Cardinality({p \in DOMAIN fs : p.dir = "wip"}) = 2

(***************************************************************************)
(* Properties of the tally and of the expansion                            *)
(***************************************************************************)
\* C23 (as claimed): when the run is over the failure tally is at most the
\* number of cases, the two numbers of "N of M tests failed".
C23_TallyBounded == pc \in {"returned", "failed"} => failures <= Len(tests)

\* the case comes from the declared test: the literal test itself, or a match
\* of its pattern under a name made from the test's name
FromDeclared(t, c) ==
    \/ c = t
    \/ /\ is_pattern(t.path)
       /\ c.kind = t.kind
       /\ c.path.dir = t.path.dir
       /\ c.path.ext = t.path.ext
       /\ starts_with(c.name, t.name \o <<"-">>)

\* C24 (as claimed): once the declared tests are expanded, each of them has
\* a case in the expanded list or is one of the bad tests.
C24_NoTestLost ==
    pc # "start"
        => \A i \in 1..Len(self_tests) :
               LET expanded == expand_globs(fs0, self_tests).tests
               IN  \/ \E k \in 1..Len(expanded) : FromDeclared(self_tests[i], expanded[k])
                   \/ \E k \in 1..Len(bad_tests) : bad_tests[k] = self_tests[i]

====
